---- MODULE Spec2Model ----
(***************************************************************************)
(* Model of llm_commit.py: the commit-gen command.  One run of commit_cmd  *)
(* is a linear pipeline; every external collaborator (git, the model, the  *)
(* terminal) answers nondeterministically at the step that calls it.       *)
(* Text is a sequence of characters, each a string naming one character.   *)
(***************************************************************************)
EXTENDS Integers, Sequences, FiniteSets, TLC

VARIABLES pc, args, env, commit_style, raw, diff, prompt, response,
          raw_message, message, gate, reads, shown, committed, log,
          calls, returned, exitCode, uncaught, argv, handed

vars == <<pc, args, env, commit_style, raw, diff, prompt, response,
          raw_message, message, gate, reads, shown, committed, log,
          calls, returned, exitCode, uncaught, argv, handed>>

----------------------------------------------------------------------------
(* Bounds *)

MaxDiffLen == 3
MaxLimit == 2
MaxReads == 2
MaxTextLen == 9
MaxWords == 2

----------------------------------------------------------------------------
(* Text helpers: Python str methods used by the program *)

Whitespace == {" ", "\n"}

\* the element of a one-element set: The({e(v) : v \in {x}}) is e(x) with x
\* evaluated once, as Python evaluates an argument before the call
The(S) == CHOOSE r \in S : TRUE

Max(a, b) == IF a > b THEN a ELSE b
Min(a, b) == IF a < b THEN a ELSE b

\* s[i:j] with 0 <= i, j (0-based, half-open), as Python clamps it
Slice(s, i, j) ==
    LET lo == Min(i, Len(s))
        hi == Min(j, Len(s))
    IN  IF hi <= lo THEN <<>> ELSE SubSeq(s, lo + 1, hi)

\* s[:n] for any integer n: a negative n counts from the end
Prefix(s, n) == IF n >= 0 THEN Slice(s, 0, n) ELSE Slice(s, 0, Max(0, Len(s) + n))

RECURSIVE LStrip(_)
LStrip(s) == IF s # <<>> /\ Head(s) \in Whitespace THEN LStrip(Tail(s)) ELSE s

RECURSIVE RStrip(_)
RStrip(s) ==
    IF s # <<>> /\ s[Len(s)] \in Whitespace
    THEN RStrip(SubSeq(s, 1, Len(s) - 1))
    ELSE s

\* str.strip()
Strip(s) == RStrip(LStrip(s))

LowerChar(c) ==
    CASE c = "Y" -> "y"
      [] c = "E" -> "e"
      [] c = "S" -> "s"
      [] c = "N" -> "n"
      [] c = "O" -> "o"
      [] OTHER -> c

\* str.lower()
Lower(s) == [i \in 1..Len(s) |-> LowerChar(s[i])]

StartsWith(s, p) == Len(s) >= Len(p) /\ SubSeq(s, 1, Len(p)) = p
EndsWith(s, p) == Len(s) >= Len(p) /\ SubSeq(s, Len(s) - Len(p) + 1, Len(s)) = p

\* str.split(sep) for a one-character separator
RECURSIVE Split(_, _)
Split(text, sep) ==
    The({ IF \A i \in 1..Len(s) : s[i] # sep
          THEN <<s>>
          ELSE The({ <<SubSeq(s, 1, k - 1)>> \o Split(SubSeq(s, k + 1, Len(s)), sep) :
                     k \in {CHOOSE i \in 1..Len(s) :
                                s[i] = sep /\ \A j \in 1..(i - 1) : s[j] # sep} })
          : s \in {text} })

\* sep.join(parts)
RECURSIVE Join(_, _)
Join(parts, sep) ==
    The({ IF p = <<>> THEN <<>>
          ELSE IF Len(p) = 1 THEN p[1]
          ELSE p[1] \o sep \o Join(Tail(p), sep)
          : p \in {parts} })

\* str.split(): the maximal runs of non-whitespace characters
RECURSIVE Words(_)
Words(s) ==
    The({ IF t = <<>> THEN <<>>
          ELSE The({ <<SubSeq(t, 1, k - 1)>> \o Words(SubSeq(t, k, Len(t))) :
                     k \in {IF \A i \in 1..Len(t) : t[i] \notin Whitespace
                            THEN Len(t) + 1
                            ELSE CHOOSE i \in 1..Len(t) :
                                     t[i] \in Whitespace
                                     /\ \A j \in 1..(i - 1) : t[j] \notin Whitespace} })
          : t \in {LStrip(s)} })

----------------------------------------------------------------------------
(* get_staged_diff *)

TruncatedMarker == <<"\n", "[", "T", "r", "u", "n", "c", "a", "t", "e", "d", "]">>

\* mutant: the comparison with the limit is >= instead of >
ShouldTruncate_AtLimit(d, truncation_limit, no_truncation) ==
    ~no_truncation /\ Len(d) >= truncation_limit

\* the condition of the truncation branch
ShouldTruncate(d, truncation_limit, no_truncation) ==
    ~no_truncation /\ Len(d) > truncation_limit

\* the value get_staged_diff returns for a non-empty run_git result
TruncateDiff(d, truncation_limit, no_truncation) ==
    IF ShouldTruncate(d, truncation_limit, no_truncation)
    THEN Prefix(d, truncation_limit) \o TruncatedMarker
    ELSE d

----------------------------------------------------------------------------
(* clean_message, format_commit_message *)

\* the backtick character (the TLA+ lexer accepts no backtick in a string)
Backtick == "<bt>"

Fence == <<Backtick, Backtick, Backtick>>

\* mutant: the text between the fences is not trimmed again
clean_message_NoRetrim(text) ==
    LET m == Strip(text)
    IN  IF StartsWith(m, Fence) /\ EndsWith(m, Fence)
        THEN Slice(m, 3, Max(0, Len(m) - 3))
        ELSE m

\* clean_message applied to the text of the response
clean_message(text) ==
    LET m == Strip(text)
    IN  IF StartsWith(m, Fence) /\ EndsWith(m, Fence)
        THEN Strip(Slice(m, 3, Max(0, Len(m) - 3)))
        ELSE m

\* the paragraphs of a body, each as its sequence of words
RECURSIVE Paragraphs(_, _)
Paragraphs(lines, cur) ==
    The({ IF l = <<>>
          THEN (IF c = <<>> THEN <<>> ELSE <<c>>)
          ELSE IF Words(Head(l)) = <<>>
          THEN (IF c = <<>> THEN <<>> ELSE <<c>>) \o Paragraphs(Tail(l), <<>>)
          ELSE Paragraphs(Tail(l), c \o Words(Head(l)))
          : l \in {lines}, c \in {cur} })

\* greedy filling: a word joins the line while the line stays within width
RECURSIVE FillLines(_, _, _)
FillLines(words, width, line) ==
    The({ IF w = <<>> THEN <<l>>
          ELSE IF Len(l) + 1 + Len(Head(w)) <= width
          THEN FillLines(Tail(w), width, l \o <<" ">> \o Head(w))
          ELSE <<l>> \o FillLines(Tail(w), width, Head(w))
          : w \in {words}, l \in {line} })

WrapParagraph(words, width) ==
    Join(FillLines(Tail(words), width, Head(words)), <<"\n">>)

\* mdformat.text(body, options={"wrap": width}) on plain paragraphs
mdformat_text(body, width) ==
    The({ Join([i \in 1..Len(P) |-> WrapParagraph(P[i], width)], <<"\n", "\n">>)
              \o <<"\n">>
          : P \in {Paragraphs(Split(body, "\n"), <<>>)} })

SubjectLimit == 50
BodyWrap == 72

\* mutant: a long subject is cut at the limit
Subject_Shortened(msg) == Slice(Strip(Split(msg, "\n")[1]), 0, SubjectLimit)

Subject(msg) == Strip(Split(msg, "\n")[1])
Body(msg) == Strip(Join(Tail(Split(msg, "\n")), <<"\n">>))

format_commit_message(msg) ==
    IF Body(msg) # <<>>
    THEN Subject(msg) \o <<"\n", "\n">> \o mdformat_text(Body(msg), BodyWrap)
    ELSE Subject(msg)

----------------------------------------------------------------------------
(* confirm_commit: one answer of the loop *)

Yes == {<<"y", "e", "s">>, <<"y">>}
No == {<<"n", "o">>, <<"n">>}

\* mutant: the answer is not lower-cased
ParseAnswer_CaseSensitive(line) ==
    LET ans == Strip(line)
    IN  IF ans \in Yes THEN "accept"
        ELSE IF ans \in No THEN "reject"
        ELSE "retry"

\* what one input line does to the loop
ParseAnswer(line) ==
    LET ans == Lower(Strip(line))
    IN  IF ans \in Yes THEN "accept"
        ELSE IF ans \in No THEN "reject"
        ELSE "retry"

----------------------------------------------------------------------------
(* commit_cmd: style resolution *)

Unset == "<unset>"

\* mutant: the environment variable is consulted before the flags
ResolveStyle_EnvFirst(semantic, conventional, env_style) ==
    IF env_style \in {"semantic", "conventional"} THEN env_style
    ELSE IF semantic THEN "semantic"
    ELSE IF conventional THEN "conventional"
    ELSE "default"

ResolveStyle(semantic, conventional, env_style) ==
    IF semantic THEN "semantic"
    ELSE IF conventional THEN "conventional"
    ELSE IF env_style \in {"semantic", "conventional"} THEN env_style
    ELSE "default"

\* get_style_description: the template the style selects
get_style_description(style) ==
    IF style \in {"semantic", "conventional"} THEN style ELSE "default"

----------------------------------------------------------------------------
(* Inputs of a run *)

\* all texts over the alphabet S of length at most n
TextsUpTo(S, n) == UNION {[1..k -> S] : k \in 0..n}

\* the characters git may print for a diff
DiffChars == {"a", "b", " "}

\* what "git diff --cached --histogram" may print
DiffOutputs == TextsUpTo(DiffChars, MaxDiffLen)

\* values of --truncation-limit / LLM_COMMIT_TRUNCATION_LIMIT (click type=int)
LimitValues == (-1)..MaxLimit

\* values of LLM_COMMIT_STYLE
EnvStyles == {Unset, "semantic", "conventional", "fancy"}

\* texts the model may answer with
Responses ==
    { <<"F", "i", "x">>,
      <<Backtick, Backtick, Backtick, "\n", "F", "i", "x", "\n", "\n",
        "a", " ", "b", "\n", Backtick, Backtick, Backtick>>,
      <<"F", "i", "x", "\n", "a", "\n", "\n", "b">>,
      <<" ", "\n">>,
      <<>> }

\* lines the user may type at the prompt
Lines ==
    { <<"y">>, <<" ", "Y", "e", "s">>, <<"N", "O", " ">>, <<"n">>,
      <<"y", "e">>, <<>> }

CallNames == {"is_git_repo", "run_git_diff", "model_prompt", "confirm_commit",
              "input", "retry_echo", "git_commit"}

\* the external calls whose outcome the run depends on, and the outcome of each:
\* is_git_repo "true"/"false", git "zero"/"nonzero", the model "returned"/"raised"
ExternalCalls == {"is_git_repo", "git_diff", "model_prompt", "git_commit"}

Returned(name, outcome) == [returned EXCEPT ![name] = outcome]

NoExit == -1

Logged(level, msg) == [level |-> level, msg |-> msg]

Called(name) == [calls EXCEPT ![name] = @ + 1]

----------------------------------------------------------------------------
(* The options of commit-gen as click resolves them.  A value on the command *)
(* line or in the environment is a string, Unset when the option or the      *)
(* variable is absent; click converts the string it picks to the option's    *)
(* type.                                                                     *)

DefaultMaxTokens == 100
\* temperatures are counted in hundredths: 0.3 is 30
DefaultTemperature == 30
DefaultTruncationLimit == 4000

\* type=int
ParsedInts == (-1)..200
ParseInt(text) == CHOOSE n \in ParsedInts : ToString(n) = text

\* type=float, in hundredths
ParseFloat(text) ==
    CASE text = "0.3" -> 30
      [] text = "0.5" -> 50
      [] text = "0.95" -> 95

\* the boolean an environment variable gives a flag
ParseBool(text) == text \in {"1", "true", "yes", "on"}

\* mutant: the environment variable wins over the command line
click_option_EnvFirst(given, envvar, default) ==
    IF envvar # Unset THEN envvar
    ELSE IF given # Unset THEN given
    ELSE default

\* the source click takes an option from: command line, envvar=, default=
click_option(given, envvar, default) ==
    IF given # Unset THEN given
    ELSE IF envvar # Unset THEN envvar
    ELSE default

\* the parameters commit_cmd is called with
click_options(cli, environ) ==
    LET model == click_option(cli.model, environ.LLM_COMMIT_MODEL, Unset)
        max_tokens == click_option(cli.max_tokens, environ.LLM_COMMIT_MAX_TOKENS, Unset)
        temperature == click_option(cli.temperature, environ.LLM_COMMIT_TEMPERATURE, Unset)
        limit == click_option(cli.truncation_limit,
                              environ.LLM_COMMIT_TRUNCATION_LIMIT, Unset)
        no_trunc == click_option(IF cli.no_truncation THEN "1" ELSE Unset,
                                 environ.LLM_COMMIT_NO_TRUNCATION, "0")
        hint == click_option(cli.hint, environ.LLM_COMMIT_HINT, Unset)
    IN  [yes |-> cli.yes,
         semantic |-> cli.semantic,
         conventional |-> cli.conventional,
         model |-> model,
         max_tokens |-> IF max_tokens = Unset THEN DefaultMaxTokens
                        ELSE ParseInt(max_tokens),
         temperature |-> IF temperature = Unset THEN DefaultTemperature
                         ELSE ParseFloat(temperature),
         truncation_limit |-> IF limit = Unset THEN DefaultTruncationLimit
                              ELSE ParseInt(limit),
         no_truncation |-> ParseBool(no_trunc),
         hint |-> hint]

NoEnvironment ==
    [LLM_COMMIT_STYLE |-> Unset, LLM_COMMIT_MODEL |-> Unset,
     LLM_COMMIT_MAX_TOKENS |-> Unset, LLM_COMMIT_TEMPERATURE |-> Unset,
     LLM_COMMIT_TRUNCATION_LIMIT |-> Unset, LLM_COMMIT_NO_TRUNCATION |-> Unset,
     LLM_COMMIT_HINT |-> Unset]

\* the arguments get_staged_diff and generate_commit_message were called with
NothingHanded == [get_staged_diff |-> <<>>, generate_commit_message |-> <<>>]

----------------------------------------------------------------------------
(* State machine of commit_cmd *)

Init ==
    /\ pc = "Start"
    /\ argv \in [yes : BOOLEAN, semantic : BOOLEAN, conventional : BOOLEAN,
                 truncation_limit : {ToString(n) : n \in LimitValues},
                 no_truncation : BOOLEAN, model : {Unset}, max_tokens : {Unset},
                 temperature : {Unset}, hint : {Unset}]
    /\ env \in [LLM_COMMIT_STYLE : EnvStyles, LLM_COMMIT_MODEL : {Unset},
                LLM_COMMIT_MAX_TOKENS : {Unset}, LLM_COMMIT_TEMPERATURE : {Unset},
                LLM_COMMIT_TRUNCATION_LIMIT : {Unset},
                LLM_COMMIT_NO_TRUNCATION : {Unset}, LLM_COMMIT_HINT : {Unset}]
    /\ args = click_options(argv, env)
    /\ handed = NothingHanded
    /\ commit_style = Unset
    /\ raw = <<>>
    /\ diff = <<>>
    /\ prompt = <<>>
    /\ response = <<>>
    /\ raw_message = <<>>
    /\ message = <<>>
    /\ gate = <<>>
    /\ reads = <<>>
    /\ shown = <<>>
    /\ committed = <<>>
    /\ log = <<>>
    /\ calls = [n \in CallNames |-> 0]
    /\ returned = [c \in ExternalCalls |-> "none"]
    /\ exitCode = NoExit
    /\ uncaught = FALSE

\* sys.exit(code) after logging
Exit(code, entries) ==
    /\ pc' = "Exit"
    /\ exitCode' = code
    /\ log' = log \o entries

\* mutant: the conflicting flags are not rejected
SelectStyle_NoConflictCheck ==
    /\ pc = "Start"
    /\ UNCHANGED <<argv, handed>>
    /\ commit_style' = ResolveStyle(args.semantic, args.conventional, env.LLM_COMMIT_STYLE)
    /\ pc' = "CheckRepo"
    /\ UNCHANGED <<exitCode, log>>
    /\ UNCHANGED returned
    /\ UNCHANGED <<args, env, raw, diff, prompt, response, raw_message, message,
                   gate, reads, shown, committed, calls, uncaught>>

\* commit_cmd: the flag conflict check and the style resolution
SelectStyle ==
    /\ pc = "Start"
    /\ UNCHANGED <<argv, handed>>
    /\ IF args.semantic /\ args.conventional
       THEN /\ Exit(1, <<Logged("ERROR", "Cannot use both --semantic and --conventional simultaneously.")>>)
            /\ UNCHANGED commit_style
       ELSE /\ commit_style' = ResolveStyle(args.semantic, args.conventional, env.LLM_COMMIT_STYLE)
            /\ pc' = "CheckRepo"
            /\ UNCHANGED <<exitCode, log>>
    /\ UNCHANGED returned
    /\ UNCHANGED <<args, env, raw, diff, prompt, response, raw_message, message,
                   gate, reads, shown, committed, calls, uncaught>>

\* mutant: the error is logged but the run goes on
CheckRepo_NoExit ==
    /\ pc = "CheckRepo"
    /\ UNCHANGED <<argv, handed>>
    /\ calls' = Called("is_git_repo")
    /\ \E inside \in BOOLEAN :
          /\ returned' = Returned("is_git_repo", IF inside THEN "true" ELSE "false")
          /\ IF inside
             THEN pc' = "CollectDiff" /\ UNCHANGED <<exitCode, log>>
             ELSE /\ log' = Append(log, Logged("ERROR", "Not a Git repository."))
                  /\ pc' = "CollectDiff"
                  /\ UNCHANGED exitCode
    /\ UNCHANGED <<args, env, commit_style, raw, diff, prompt, response, raw_message,
                   message, gate, reads, shown, committed, uncaught>>

\* commit_cmd: if not is_git_repo()
CheckRepo ==
    /\ pc = "CheckRepo"
    /\ UNCHANGED <<argv, handed>>
    /\ calls' = Called("is_git_repo")
    /\ \E inside \in BOOLEAN :
          /\ returned' = Returned("is_git_repo", IF inside THEN "true" ELSE "false")
          /\ IF inside
             THEN pc' = "CollectDiff" /\ UNCHANGED <<exitCode, log>>
             ELSE Exit(1, <<Logged("ERROR", "Not a Git repository.")>>)
    /\ UNCHANGED <<args, env, commit_style, raw, diff, prompt, response, raw_message,
                   message, gate, reads, shown, committed, uncaught>>

\* mutant: an empty diff is not rejected
CollectDiff_NoEmptyCheck ==
    /\ pc = "CollectDiff"
    /\ handed' = [handed EXCEPT !.get_staged_diff =
                      <<[truncation_limit |-> args.truncation_limit,
                         no_truncation |-> args.no_truncation]>>]
    /\ UNCHANGED argv
    /\ calls' = Called("run_git_diff")
    /\ \/ \* git exits non-zero: run_git logs and exits
          /\ returned' = Returned("git_diff", "nonzero")
          /\ Exit(1, <<Logged("ERROR", "Git error")>>)
          /\ UNCHANGED <<raw, diff>>
       \/ \E stdout \in DiffOutputs :
             /\ returned' = Returned("git_diff", "zero")
             /\ raw' = Strip(stdout)
             /\ IF FALSE
                THEN /\ Exit(1, <<Logged("ERROR", "No staged changes. Use 'git add'.")>>)
                     /\ UNCHANGED diff
                ELSE /\ diff' = TruncateDiff(raw', args.truncation_limit, args.no_truncation)
                     /\ log' = IF ShouldTruncate(raw', args.truncation_limit, args.no_truncation)
                               THEN Append(log, Logged("WARNING", "Diff is large; truncating."))
                               ELSE log
                     /\ pc' = "BuildPrompt"
                     /\ UNCHANGED exitCode
    /\ UNCHANGED <<args, env, commit_style, prompt, response, raw_message, message,
                   gate, reads, shown, committed, uncaught>>

\* get_staged_diff, run_git included
CollectDiff ==
    /\ pc = "CollectDiff"
    /\ handed' = [handed EXCEPT !.get_staged_diff =
                      <<[truncation_limit |-> args.truncation_limit,
                         no_truncation |-> args.no_truncation]>>]
    /\ UNCHANGED argv
    /\ calls' = Called("run_git_diff")
    /\ \/ \* git exits non-zero: run_git logs and exits
          /\ returned' = Returned("git_diff", "nonzero")
          /\ Exit(1, <<Logged("ERROR", "Git error")>>)
          /\ UNCHANGED <<raw, diff>>
       \/ \E stdout \in DiffOutputs :
             /\ returned' = Returned("git_diff", "zero")
             /\ raw' = Strip(stdout)
             /\ IF raw' = <<>>
                THEN /\ Exit(1, <<Logged("ERROR", "No staged changes. Use 'git add'.")>>)
                     /\ UNCHANGED diff
                ELSE /\ diff' = TruncateDiff(raw', args.truncation_limit, args.no_truncation)
                     /\ log' = IF ShouldTruncate(raw', args.truncation_limit, args.no_truncation)
                               THEN Append(log, Logged("WARNING", "Diff is large; truncating."))
                               ELSE log
                     /\ pc' = "BuildPrompt"
                     /\ UNCHANGED exitCode
    /\ UNCHANGED <<args, env, commit_style, prompt, response, raw_message, message,
                   gate, reads, shown, committed, uncaught>>

\* generate_commit_message: get_style_description and build_prompt
BuildPrompt ==
    /\ pc = "BuildPrompt"
    /\ handed' = [handed EXCEPT !.generate_commit_message =
                      <<[diff |-> diff, commit_style |-> commit_style,
                         model |-> args.model, max_tokens |-> args.max_tokens,
                         temperature |-> args.temperature, hint |-> args.hint]>>]
    /\ UNCHANGED argv
    /\ prompt' = <<[commit_style |-> commit_style,
                    style_description |-> get_style_description(commit_style),
                    hint |-> IF args.hint \in {Unset, ""} THEN <<>> ELSE <<args.hint>>,
                    diff |-> diff]>>
    /\ pc' = "Invoke"
    /\ UNCHANGED returned
    /\ UNCHANGED <<args, env, commit_style, raw, diff, response, raw_message, message,
                   gate, reads, shown, committed, log, calls, exitCode, uncaught>>

\* mutant: a failed model call is caught and tried again
Invoke_Retry ==
    /\ pc = "Invoke"
    /\ UNCHANGED <<argv, handed>>
    /\ calls' = Called("model_prompt")
    /\ \/ \* the provider raises: nothing catches it
          /\ returned' = Returned("model_prompt", "raised")
          /\ uncaught' = FALSE
          /\ pc' = "Invoke"
          /\ exitCode' = exitCode
          /\ UNCHANGED response
       \/ \E text \in Responses :
             /\ returned' = Returned("model_prompt", "returned")
             /\ response' = text
             /\ pc' = "Clean"
             /\ UNCHANGED <<exitCode, uncaught>>
    /\ UNCHANGED <<args, env, commit_style, raw, diff, prompt, raw_message, message,
                   gate, reads, shown, committed, log>>

\* generate_commit_message: model_obj.prompt(...)
Invoke ==
    /\ pc = "Invoke"
    /\ UNCHANGED <<argv, handed>>
    /\ calls' = Called("model_prompt")
    /\ \/ \* the provider raises: nothing catches it
          /\ returned' = Returned("model_prompt", "raised")
          /\ uncaught' = TRUE
          /\ pc' = "Exit"
          /\ exitCode' = 1
          /\ UNCHANGED response
       \/ \E text \in Responses :
             /\ returned' = Returned("model_prompt", "returned")
             /\ response' = text
             /\ pc' = "Clean"
             /\ UNCHANGED <<exitCode, uncaught>>
    /\ UNCHANGED <<args, env, commit_style, raw, diff, prompt, raw_message, message,
                   gate, reads, shown, committed, log>>

\* generate_commit_message: return clean_message(response)
Clean ==
    /\ pc = "Clean"
    /\ UNCHANGED <<argv, handed>>
    /\ raw_message' = clean_message(response)
    /\ pc' = "Format"
    /\ UNCHANGED returned
    /\ UNCHANGED <<args, env, commit_style, raw, diff, prompt, response, message,
                   gate, reads, shown, committed, log, calls, exitCode, uncaught>>

\* commit_cmd: message = format_commit_message(raw_message)
Format ==
    /\ pc = "Format"
    /\ UNCHANGED <<argv, handed>>
    /\ message' = format_commit_message(raw_message)
    /\ log' = IF Len(Subject(raw_message)) > SubjectLimit
              THEN Append(log, Logged("WARNING", "Subject line exceeds 50 characters."))
              ELSE log
    /\ pc' = "Confirm"
    /\ UNCHANGED returned
    /\ UNCHANGED <<args, env, commit_style, raw, diff, prompt, response, raw_message,
                   gate, reads, shown, committed, calls, exitCode, uncaught>>

\* confirm_commit: the echo of the message and the auto_yes return
Confirm ==
    /\ pc = "Confirm"
    /\ UNCHANGED <<argv, handed>>
    /\ calls' = Called("confirm_commit")
    /\ shown' = Append(shown, message)
    /\ IF args.yes
       THEN gate' = <<TRUE>> /\ pc' = "Commit"
       ELSE gate' = gate /\ pc' = "Prompt"
    /\ UNCHANGED returned
    /\ UNCHANGED <<args, env, commit_style, raw, diff, prompt, response, raw_message,
                   message, reads, committed, log, exitCode, uncaught>>

\* mutant: an answer that is neither yes nor no asks the model again
ReadAnswer_Regenerate ==
    /\ pc = "Prompt"
    /\ UNCHANGED <<argv, handed>>
    /\ \/ \* input() meets the end of the input
          /\ calls' = Called("input")
          /\ uncaught' = TRUE
          /\ pc' = "Exit"
          /\ exitCode' = 1
          /\ UNCHANGED <<gate, reads>>
       \/ /\ Len(reads) < MaxReads
          /\ \E line \in Lines :
                /\ reads' = Append(reads, line)
                /\ CASE ParseAnswer(line) = "accept" ->
                            /\ gate' = <<TRUE>>
                            /\ pc' = "Commit"
                            /\ calls' = Called("input")
                     [] ParseAnswer(line) = "reject" ->
                            /\ gate' = <<FALSE>>
                            /\ pc' = "Abort"
                            /\ calls' = Called("input")
                     [] OTHER ->
                            /\ gate' = gate
                            /\ pc' = "Invoke"
                            /\ calls' = [calls EXCEPT !["input"] = @ + 1,
                                                      !["retry_echo"] = @ + 1]
          /\ UNCHANGED <<exitCode, uncaught>>
    /\ UNCHANGED returned
    /\ UNCHANGED <<args, env, commit_style, raw, diff, prompt, response, raw_message,
                   message, shown, committed, log>>

\* confirm_commit: one iteration of the while loop
ReadAnswer ==
    /\ pc = "Prompt"
    /\ UNCHANGED <<argv, handed>>
    /\ \/ \* input() meets the end of the input
          /\ calls' = Called("input")
          /\ uncaught' = TRUE
          /\ pc' = "Exit"
          /\ exitCode' = 1
          /\ UNCHANGED <<gate, reads>>
       \/ /\ Len(reads) < MaxReads
          /\ \E line \in Lines :
                /\ reads' = Append(reads, line)
                /\ CASE ParseAnswer(line) = "accept" ->
                            /\ gate' = <<TRUE>>
                            /\ pc' = "Commit"
                            /\ calls' = Called("input")
                     [] ParseAnswer(line) = "reject" ->
                            /\ gate' = <<FALSE>>
                            /\ pc' = "Abort"
                            /\ calls' = Called("input")
                     [] OTHER ->
                            /\ gate' = gate
                            /\ pc' = "Prompt"
                            /\ calls' = [calls EXCEPT !["input"] = @ + 1,
                                                      !["retry_echo"] = @ + 1]
          /\ UNCHANGED <<exitCode, uncaught>>
    /\ UNCHANGED returned
    /\ UNCHANGED <<args, env, commit_style, raw, diff, prompt, response, raw_message,
                   message, shown, committed, log>>

\* mutant: the unformatted message is committed
Commit_RawMessage ==
    /\ pc = "Commit"
    /\ UNCHANGED <<argv, handed>>
    /\ calls' = Called("git_commit")
    /\ committed' = Append(committed, raw_message)
    /\ \/ /\ returned' = Returned("git_commit", "zero")
          /\ Exit(0, <<Logged("INFO", "Committed")>>)
       \/ /\ returned' = Returned("git_commit", "nonzero")
          /\ Exit(1, <<Logged("ERROR", "Commit failed")>>)
    /\ UNCHANGED <<args, env, commit_style, raw, diff, prompt, response, raw_message,
                   message, gate, reads, shown, uncaught>>

\* mutant: a failed commit does not change the exit code
Commit_FailureSwallowed ==
    /\ pc = "Commit"
    /\ UNCHANGED <<argv, handed>>
    /\ calls' = Called("git_commit")
    /\ committed' = Append(committed, message)
    /\ \/ /\ returned' = Returned("git_commit", "zero")
          /\ Exit(0, <<Logged("INFO", "Committed")>>)
       \/ /\ returned' = Returned("git_commit", "nonzero")
          /\ Exit(0, <<Logged("ERROR", "Commit failed")>>)
    /\ UNCHANGED <<args, env, commit_style, raw, diff, prompt, response, raw_message,
                   message, gate, reads, shown, uncaught>>

\* commit_changes
Commit ==
    /\ pc = "Commit"
    /\ UNCHANGED <<argv, handed>>
    /\ calls' = Called("git_commit")
    /\ committed' = Append(committed, message)
    /\ \/ /\ returned' = Returned("git_commit", "zero")
          /\ Exit(0, <<Logged("INFO", "Committed")>>)
       \/ /\ returned' = Returned("git_commit", "nonzero")
          /\ Exit(1, <<Logged("ERROR", "Commit failed")>>)
    /\ UNCHANGED <<args, env, commit_style, raw, diff, prompt, response, raw_message,
                   message, gate, reads, shown, uncaught>>

\* mutant: declining the commit is reported as a failure
Abort_ExitOne ==
    /\ pc = "Abort"
    /\ UNCHANGED <<argv, handed>>
    /\ Exit(1, <<Logged("INFO", "Commit aborted.")>>)
    /\ UNCHANGED returned
    /\ UNCHANGED <<args, env, commit_style, raw, diff, prompt, response, raw_message,
                   message, gate, reads, shown, committed, calls, uncaught>>

\* commit_cmd: the else branch of the gate
Abort ==
    /\ pc = "Abort"
    /\ UNCHANGED <<argv, handed>>
    /\ Exit(0, <<Logged("INFO", "Commit aborted.")>>)
    /\ UNCHANGED returned
    /\ UNCHANGED <<args, env, commit_style, raw, diff, prompt, response, raw_message,
                   message, gate, reads, shown, committed, calls, uncaught>>

Next ==
    \/ SelectStyle
    \/ CheckRepo
    \/ CollectDiff
    \/ BuildPrompt
    \/ Invoke
    \/ Clean
    \/ Format
    \/ Confirm
    \/ ReadAnswer
    \/ Commit
    \/ Abort

Spec == Init /\ [][Next]_vars

----------------------------------------------------------------------------
(* Termination.  The prompt loop has no bound in the code: once MaxReads     *)
(* lines are recorded the model keeps the last MaxReads lines and counts no  *)
(* further, so that a user who never answers yes or no is a cycle.           *)

\* mutant: beyond the recorded lines no answer ends the loop
ReadBeyond_NoReturn ==
    /\ pc = "Prompt"
    /\ Len(reads) = MaxReads
    /\ \E line \in Lines : reads' = Tail(reads) \o <<line>>
    /\ UNCHANGED <<pc, gate, calls, exitCode, uncaught, returned, argv, handed>>
    /\ UNCHANGED <<args, env, commit_style, raw, diff, prompt, response, raw_message,
                   message, shown, committed, log>>

\* confirm_commit: an iteration of the while loop after MaxReads lines
ReadBeyond ==
    /\ pc = "Prompt"
    /\ Len(reads) = MaxReads
    /\ \E line \in Lines :
          /\ reads' = Tail(reads) \o <<line>>
          /\ CASE ParseAnswer(line) = "accept" ->
                      gate' = <<TRUE>> /\ pc' = "Commit"
               [] ParseAnswer(line) = "reject" ->
                      gate' = <<FALSE>> /\ pc' = "Abort"
               [] OTHER ->
                      gate' = gate /\ pc' = "Prompt"
    /\ UNCHANGED <<calls, exitCode, uncaught, returned, argv, handed>>
    /\ UNCHANGED <<args, env, commit_style, raw, diff, prompt, response, raw_message,
                   message, shown, committed, log>>

InitLive ==
    /\ pc = "Start"
    /\ argv \in [yes : BOOLEAN, semantic : BOOLEAN, conventional : BOOLEAN,
                 truncation_limit : {"1"}, no_truncation : {FALSE}, model : {Unset},
                 max_tokens : {Unset}, temperature : {Unset}, hint : {Unset}]
    /\ env = NoEnvironment
    /\ args = click_options(argv, env)
    /\ handed = NothingHanded
    /\ commit_style = Unset
    /\ raw = <<>>
    /\ diff = <<>>
    /\ prompt = <<>>
    /\ response = <<>>
    /\ raw_message = <<>>
    /\ message = <<>>
    /\ gate = <<>>
    /\ reads = <<>>
    /\ shown = <<>>
    /\ committed = <<>>
    /\ log = <<>>
    /\ calls = [n \in CallNames |-> 0]
    /\ returned = [c \in ExternalCalls |-> "none"]
    /\ exitCode = NoExit
    /\ uncaught = FALSE

NextLive == Next \/ ReadBeyond

\* every step but the reading of an answer: git, the model and the program's
\* own code return or fail
Progress ==
    \/ SelectStyle
    \/ CheckRepo
    \/ CollectDiff
    \/ BuildPrompt
    \/ Invoke
    \/ Clean
    \/ Format
    \/ Confirm
    \/ Commit
    \/ Abort

\* the user enters a line that is yes, y, no or n
ValidAnswer == (ReadAnswer \/ ReadBeyond) /\ gate' # <<>>

\* every external call returns or fails, and the user ends up answering
SpecLive ==
    InitLive /\ [][NextLive]_vars /\ WF_vars(Progress) /\ WF_vars(ValidAnswer)

\* every external call returns or fails, whatever the user types
SpecLiveAnyUser == InitLive /\ [][NextLive]_vars /\ WF_vars(Progress)

----------------------------------------------------------------------------
(* The options given on the command line, in the environment, or not at all: *)
(* the run up to the call of generate_commit_message                         *)

InitOptions ==
    /\ pc = "Start"
    /\ argv \in [yes : {TRUE}, semantic : {FALSE}, conventional : {FALSE},
                 truncation_limit : {Unset, "1"}, no_truncation : BOOLEAN,
                 model : {Unset, "m1"}, max_tokens : {Unset, "50"},
                 temperature : {Unset, "0.5"}, hint : {Unset, "h1", ""}]
    /\ env \in [LLM_COMMIT_STYLE : {Unset}, LLM_COMMIT_MODEL : {Unset, "m2"},
                LLM_COMMIT_MAX_TOKENS : {Unset, "150"},
                LLM_COMMIT_TEMPERATURE : {Unset, "0.95"},
                LLM_COMMIT_TRUNCATION_LIMIT : {Unset, "2"},
                LLM_COMMIT_NO_TRUNCATION : {Unset, "1", "0"},
                LLM_COMMIT_HINT : {Unset, "h2"}]
    /\ args = click_options(argv, env)
    /\ handed = NothingHanded
    /\ commit_style = Unset
    /\ raw = <<>>
    /\ diff = <<>>
    /\ prompt = <<>>
    /\ response = <<>>
    /\ raw_message = <<>>
    /\ message = <<>>
    /\ gate = <<>>
    /\ reads = <<>>
    /\ shown = <<>>
    /\ committed = <<>>
    /\ log = <<>>
    /\ calls = [n \in CallNames |-> 0]
    /\ returned = [c \in ExternalCalls |-> "none"]
    /\ exitCode = NoExit
    /\ uncaught = FALSE

NextOptions ==
    \/ SelectStyle
    \/ CheckRepo
    \/ CollectDiff
    \/ BuildPrompt

SpecOptions == InitOptions /\ [][NextOptions]_vars

----------------------------------------------------------------------------
(* clean_message on every response text: the run at the return of the model *)

\* the characters of a response
TextChars == {Backtick, "a", " "}

\* the state of a run that has collected the diff "a" and built the prompt
AfterPrompt ==
    /\ argv = [yes |-> TRUE, semantic |-> FALSE, conventional |-> FALSE,
               truncation_limit |-> Unset, no_truncation |-> TRUE, model |-> Unset,
               max_tokens |-> Unset, temperature |-> Unset, hint |-> Unset]
    /\ env = NoEnvironment
    /\ args = click_options(argv, env)
    /\ handed = [get_staged_diff |->
                     <<[truncation_limit |-> args.truncation_limit,
                        no_truncation |-> args.no_truncation]>>,
                 generate_commit_message |->
                     <<[diff |-> <<"a">>, commit_style |-> "default",
                        model |-> args.model, max_tokens |-> args.max_tokens,
                        temperature |-> args.temperature, hint |-> args.hint]>>]
    /\ commit_style = "default"
    /\ raw = <<"a">>
    /\ diff = <<"a">>
    /\ prompt = <<[commit_style |-> "default", style_description |-> "default",
                   hint |-> <<>>, diff |-> <<"a">>]>>
    /\ gate = <<>>
    /\ reads = <<>>
    /\ shown = <<>>
    /\ committed = <<>>
    /\ log = <<>>
    /\ calls = [n \in CallNames |->
                   IF n \in {"is_git_repo", "run_git_diff", "model_prompt"} THEN 1 ELSE 0]
    /\ returned = [c \in ExternalCalls |->
                      CASE c = "is_git_repo" -> "true"
                        [] c = "git_diff" -> "zero"
                        [] c = "model_prompt" -> "returned"
                        [] OTHER -> "none"]
    /\ exitCode = NoExit
    /\ uncaught = FALSE

InitClean ==
    /\ pc = "Clean"
    /\ AfterPrompt
    /\ response \in TextsUpTo(TextChars, MaxTextLen)
    /\ raw_message = <<>>
    /\ message = <<>>

SpecClean == InitClean /\ [][Clean]_vars

----------------------------------------------------------------------------
(* format_commit_message on messages built from words of chosen lengths *)

Word(n) == [i \in 1..n |-> "a"]

\* lengths around the subject limit and around the wrap width
SubjectLens == {0, 3, SubjectLimit, SubjectLimit + 1}
WordLens == {1, 35, 36, BodyWrap + 1}

Separators == {<<" ">>, <<"\n">>, <<"\n", "\n">>}

\* the bodies of exactly k words
RECURSIVE Bodies(_)
Bodies(k) ==
    IF k = 1 THEN {Word(n) : n \in WordLens}
    ELSE {b \o sep \o Word(n) : b \in Bodies(k - 1), sep \in Separators, n \in WordLens}

FirstLines ==
    {Word(n) : n \in SubjectLens} \cup {Word(n) \o <<" ">> : n \in SubjectLens}

\* what follows the first line: nothing, whitespace only, or a body
Remainders ==
    {<<>>, <<"\n">>, <<"\n", " ", "\n">>}
        \cup {sep \o b : sep \in {<<"\n">>, <<"\n", "\n">>},
                          b \in UNION {Bodies(k) : k \in 1..MaxWords}}

FormatInputs == {first \o rest : first \in FirstLines, rest \in Remainders}

InitFormat ==
    /\ pc = "Format"
    /\ AfterPrompt
    /\ raw_message \in FormatInputs
    /\ response = raw_message
    /\ message = <<>>

SpecFormat == InitFormat /\ [][Format]_vars

----------------------------------------------------------------------------
(* Properties *)

Last(q) == q[Len(q)]

HasLogged(msg) == \E i \in 1..Len(log) : log[i].msg = msg

\* the run is past get_staged_diff, which returned a diff
DiffCollected ==
    /\ returned.git_diff = "zero"
    /\ pc \notin {"Start", "CheckRepo", "CollectDiff"}
    /\ raw # <<>>

\* C1: when is_git_repo() returns false the run ends with exit code 1 after
\* logging "Not a Git repository", and the staged-diff query, the model call,
\* the confirmation prompt and git commit are each invoked zero times.
C1_NotARepository ==
    returned.is_git_repo = "false" =>
        /\ pc = "Exit"
        /\ exitCode = 1
        /\ log = <<Logged("ERROR", "Not a Git repository.")>>
        /\ calls["run_git_diff"] = 0
        /\ calls["model_prompt"] = 0
        /\ calls["confirm_commit"] = 0
        /\ calls["input"] = 0
        /\ calls["git_commit"] = 0

C1_Witness ==
    /\ returned.is_git_repo = "false"
    /\ calls["is_git_repo"] = 1
    /\ exitCode = 1

\* C2: whenever the staged-diff query returns an empty string (after run_git
\* has stripped its output), get_staged_diff ends the process with exit code 1
\* and an error log, and neither the model call nor git commit is invoked.
C2_EmptyDiffAborts ==
    (returned.git_diff = "zero" /\ raw = <<>>) =>
        /\ pc = "Exit"
        /\ exitCode = 1
        /\ Last(log) = Logged("ERROR", "No staged changes. Use 'git add'.")
        /\ calls["model_prompt"] = 0
        /\ calls["git_commit"] = 0
        /\ returned.model_prompt = "none"
        /\ committed = <<>>

C2_Witness ==
    /\ returned.git_diff = "zero"
    /\ raw = <<>>
    /\ calls["run_git_diff"] = 1
    /\ exitCode = 1

\* C3 (as claimed): for any truncation limit L and any raw diff longer than L,
\* with truncation enabled, get_staged_diff returns the first L characters of
\* the raw diff followed by "\n[Truncated]", of length exactly L + 12.
C3_TruncatedToLimit ==
    (DiffCollected /\ ~args.no_truncation /\ Len(raw) > args.truncation_limit) =>
        /\ diff = SubSeq(raw, 1, args.truncation_limit) \o TruncatedMarker
        /\ Len(diff) = args.truncation_limit + 12

\* C4: get_staged_diff returns the non-empty raw diff unchanged, with no marker
\* and no truncation warning, whenever truncation is disabled or the diff's
\* length does not exceed the limit (a length equal to the limit included).
C4_ShortDiffVerbatim ==
    (DiffCollected /\ (args.no_truncation \/ Len(raw) <= args.truncation_limit)) =>
        /\ diff = raw
        /\ ~HasLogged("Diff is large; truncating.")

C4_Witness ==
    /\ DiffCollected
    /\ ~args.no_truncation
    /\ Len(raw) = args.truncation_limit
    /\ diff = raw

\* the style the precedence flag > environment variable > default selects
C5_Expected ==
    CASE args.semantic /\ ~args.conventional -> "semantic"
      [] args.conventional /\ ~args.semantic -> "conventional"
      [] ~args.semantic /\ ~args.conventional
            /\ env.LLM_COMMIT_STYLE = "semantic" -> "semantic"
      [] ~args.semantic /\ ~args.conventional
            /\ env.LLM_COMMIT_STYLE = "conventional" -> "conventional"
      [] OTHER -> "default"

\* C5: the commit style passed to generate_commit_message is the flag's style
\* when exactly one of --semantic/--conventional is given, whatever
\* LLM_COMMIT_STYLE holds; with no flag it is LLM_COMMIT_STYLE when that is
\* "semantic" or "conventional"; otherwise it is "default".
C5_StylePrecedence ==
    prompt # <<>> =>
        /\ prompt[1].commit_style = C5_Expected
        /\ prompt[1].style_description = C5_Expected

C5_Witness ==
    /\ prompt # <<>>
    /\ args.semantic
    /\ env.LLM_COMMIT_STYLE = "conventional"
    /\ prompt[1].commit_style = "semantic"

\* C6: with both --semantic and --conventional the run exits with code 1 before
\* any other work: the repository check, the staged-diff query, the model call,
\* the confirmation prompt and git commit are each invoked zero times.
C6_ConflictingFlags ==
    (args.semantic /\ args.conventional) =>
        /\ pc \in {"Start", "Exit"}
        /\ pc = "Exit" => exitCode = 1
        /\ \A c \in CallNames : calls[c] = 0
        /\ \A c \in ExternalCalls : returned[c] = "none"
        /\ shown = <<>>

C6_Witness ==
    /\ args.semantic
    /\ args.conventional
    /\ pc = "Exit"
    /\ exitCode = 1

\* a line that, trimmed and lower-cased, is one of yes/y/no/n
C7_IsYes(line) == Lower(Strip(line)) \in {<<"y", "e", "s">>, <<"y">>}
C7_IsNo(line) == Lower(Strip(line)) \in {<<"n", "o">>, <<"n">>}
C7_Valid(line) == C7_IsYes(line) \/ C7_IsNo(line)

\* C7: confirm_commit without auto_yes returns the answer of the first valid
\* line; every earlier line causes exactly one re-prompt, the number of reads is
\* the position of that line and no later line is read.  With auto_yes it
\* returns true with zero reads.
C7_ConfirmLoop ==
    /\ (args.yes /\ gate # <<>>) =>
          /\ gate = <<TRUE>>
          /\ calls["input"] = 0
          /\ calls["retry_echo"] = 0
          /\ reads = <<>>
    /\ (~args.yes /\ gate # <<>>) =>
          /\ reads # <<>>
          /\ C7_Valid(Last(reads))
          /\ \A i \in 1..(Len(reads) - 1) : ~C7_Valid(reads[i])
          /\ gate = <<C7_IsYes(Last(reads))>>
          /\ calls["input"] = Len(reads)
          /\ calls["retry_echo"] = Len(reads) - 1
    /\ (~args.yes /\ gate = <<>>) =>
          /\ \A i \in 1..Len(reads) : ~C7_Valid(reads[i])
          /\ calls["retry_echo"] = Len(reads)

C7_Witness ==
    /\ ~args.yes
    /\ gate = <<TRUE>>
    /\ Len(reads) = 2
    /\ ~C7_Valid(reads[1])
    /\ reads[2] = <<" ", "Y", "e", "s">>
    /\ calls["retry_echo"] = 1

\* a finished run in which the repository check passed, the staged diff was
\* non-empty, the model call returned and the gate accepted
C8_Accepted ==
    /\ pc = "Exit"
    /\ returned.is_git_repo = "true"
    /\ DiffCollected
    /\ returned.model_prompt = "returned"
    /\ gate = <<TRUE>>

\* C8 (as claimed): in such a run git commit is invoked exactly once, its
\* message is non-empty and is the formatted message displayed at the gate, and
\* the process ends with exit code 0.
C8_Original ==
    C8_Accepted =>
        /\ calls["git_commit"] = 1
        /\ committed = <<message>>
        /\ shown = <<message>>
        /\ message # <<>>
        /\ exitCode = 0

\* C8 (amended): in such a run git commit is invoked exactly once with the
\* formatted message displayed at the gate; the message is non-empty when the
\* cleaned response is non-empty; the exit code is 0 when git commit exits zero
\* and 1 when it exits non-zero.
C8_CommitOnAccept ==
    C8_Accepted =>
        /\ calls["git_commit"] = 1
        /\ committed = <<message>>
        /\ shown = <<message>>
        /\ message = format_commit_message(clean_message(response))
        /\ clean_message(response) # <<>> => message # <<>>
        /\ returned.git_commit = "zero" => exitCode = 0
        /\ returned.git_commit = "nonzero" => exitCode = 1
        /\ returned.git_commit # "none"

C8_Witness ==
    /\ C8_Accepted
    /\ returned.git_commit = "zero"
    /\ exitCode = 0
    /\ committed = <<message>>
    /\ Len(message) > 3

\* C9: git commit is invoked only when the gate returned true; when the gate
\* returns false the run logs "Commit aborted", invokes git commit zero times
\* and ends with exit code 0.
C9_CommitOnlyOnAccept ==
    /\ calls["git_commit"] > 0 => gate = <<TRUE>>
    /\ gate = <<FALSE>> =>
          /\ calls["git_commit"] = 0
          /\ committed = <<>>
          /\ pc \in {"Abort", "Exit"}
          /\ pc = "Exit" =>
                /\ Last(log) = Logged("INFO", "Commit aborted.")
                /\ exitCode = 0

C9_Witness ==
    /\ gate = <<FALSE>>
    /\ pc = "Exit"
    /\ exitCode = 0
    /\ HasLogged("Commit aborted.")

\* C10: when the staged-diff query or git commit exits non-zero the error is
\* logged and the process ends with exit code 1; a failed commit is not retried
\* and not reported as success.
C10_GitFailureIsFatal ==
    /\ returned.git_diff = "nonzero" =>
          /\ pc = "Exit"
          /\ exitCode = 1
          /\ Last(log) = Logged("ERROR", "Git error")
          /\ calls["git_commit"] = 0
    /\ returned.git_commit = "nonzero" =>
          /\ pc = "Exit"
          /\ exitCode = 1
          /\ Last(log) = Logged("ERROR", "Commit failed")
          /\ calls["git_commit"] = 1
          /\ ~HasLogged("Committed")

C10_Witness ==
    /\ returned.git_commit = "nonzero"
    /\ calls["git_commit"] = 1
    /\ exitCode = 1

\* C11 (as claimed): clean_message returns the trimmed text unchanged unless it
\* both starts and ends with a fence; then the trimmed text is a fence, an
\* inner text and a fence, and the result is the inner text, trimmed.
C11_FenceRoundTrip ==
    pc = "Format" =>
        LET m == Strip(response)
        IN  IF StartsWith(m, Fence) /\ EndsWith(m, Fence)
            THEN /\ Len(m) >= 2 * Len(Fence)
                 /\ raw_message = Strip(SubSeq(m, Len(Fence) + 1, Len(m) - Len(Fence)))
            ELSE raw_message = m

\* C11 (amended): clean_message returns the trimmed text unchanged unless it
\* both starts and ends with a fence; then, when the trimmed text has at least
\* six characters, the result is the text between the first and the last fence,
\* trimmed, internal fences kept; when it has three to five characters (all
\* backticks, the two fences overlapping) the result is the empty text.
C11_FenceStripped ==
    pc = "Format" =>
        LET m == Strip(response)
        IN  IF StartsWith(m, Fence) /\ EndsWith(m, Fence)
            THEN IF Len(m) >= 2 * Len(Fence)
                 THEN raw_message = Strip(SubSeq(m, Len(Fence) + 1, Len(m) - Len(Fence)))
                 ELSE /\ raw_message = <<>>
                      /\ \A i \in 1..Len(m) : m[i] = Backtick
            ELSE raw_message = m

C11_Witness ==
    /\ pc = "Format"
    /\ response = Fence \o <<" ", "a", " ">> \o Fence
    /\ raw_message = <<"a">>

\* the text before the first newline, and the text after it
C12_FirstLine(s) ==
    IF \A i \in 1..Len(s) : s[i] # "\n" THEN s
    ELSE SubSeq(s, 1, (CHOOSE i \in 1..Len(s) :
                          s[i] = "\n" /\ \A j \in 1..(i - 1) : s[j] # "\n") - 1)

C12_Rest(s) == SubSeq(s, Len(C12_FirstLine(s)) + 2, Len(s))

C12_Blank(s) == \A i \in 1..Len(s) : s[i] \in Whitespace

\* C12 (as claimed): for a message with a non-blank body, format_commit_message
\* returns the subject, one blank line and the body reflowed at word
\* boundaries, every output line after the subject being at most 72 characters.
C12_BodyWithin72 ==
    (pc = "Confirm" /\ ~C12_Blank(C12_Rest(raw_message))) =>
        LET out == Split(message, "\n")
        IN  /\ Len(out) >= 3
            /\ out[1] = Strip(C12_FirstLine(raw_message))
            /\ out[2] = <<>>
            /\ Words(C12_Rest(message)) = Words(C12_Rest(raw_message))
            /\ \A i \in 2..Len(out) : Len(out[i]) <= 72

\* C13: format_commit_message never rewrites the subject: the first output
\* line is the first input line, trimmed; a warning is logged exactly when it
\* is longer than 50 characters; when only whitespace follows the first line
\* the output is that subject line alone.
C13_SubjectKept ==
    pc = "Confirm" =>
        LET subject == Strip(C12_FirstLine(raw_message))
        IN  /\ C12_FirstLine(message) = subject
            /\ HasLogged("Subject line exceeds 50 characters.") <=> Len(subject) > 50
            /\ exitCode = NoExit
            /\ C12_Blank(C12_Rest(raw_message)) => message = subject

C13_Witness ==
    /\ pc = "Confirm"
    /\ Len(C12_FirstLine(message)) = 51
    /\ C12_FirstLine(raw_message) = Word(51) \o <<" ">>
    /\ ~C12_Blank(C12_Rest(raw_message))
    /\ HasLogged("Subject line exceeds 50 characters.")

\* the position of a stage in the pipeline; the prompt loop belongs to Confirm
StageRank(p) ==
    CASE p = "Start" -> 0
      [] p = "CheckRepo" -> 1
      [] p = "CollectDiff" -> 2
      [] p = "BuildPrompt" -> 3
      [] p = "Invoke" -> 4
      [] p = "Clean" -> 5
      [] p = "Format" -> 6
      [] p = "Confirm" -> 7
      [] p = "Prompt" -> 8
      [] p = "Commit" -> 9
      [] p = "Abort" -> 9
      [] p = "Exit" -> 10

\* the stages a stage may hand over to (any stage may also end the run)
StageSuccessors(p) ==
    CASE p = "Start" -> {"CheckRepo"}
      [] p = "CheckRepo" -> {"CollectDiff"}
      [] p = "CollectDiff" -> {"BuildPrompt"}
      [] p = "BuildPrompt" -> {"Invoke"}
      [] p = "Invoke" -> {"Clean"}
      [] p = "Clean" -> {"Format"}
      [] p = "Format" -> {"Confirm"}
      [] p = "Confirm" -> {"Prompt", "Commit"}
      [] p = "Prompt" -> {"Commit", "Abort"}
      [] OTHER -> {}

C14_Step ==
    /\ pc = "Exit" => UNCHANGED vars
    /\ pc' # pc => StageRank(pc') > StageRank(pc)
    /\ (pc' # pc /\ pc' # "Exit") => pc' \in StageSuccessors(pc)
    /\ pc' = "CollectDiff" => returned'.is_git_repo = "true"
    /\ pc' = "BuildPrompt" => (returned'.git_diff = "zero" /\ raw' # <<>>)
    /\ pc' = "Clean" => returned'.model_prompt = "returned"
    /\ pc' = "Commit" => gate' = <<TRUE>>
    /\ pc' = "Abort" => gate' = <<FALSE>>
    /\ \A c \in {"is_git_repo", "run_git_diff", "model_prompt", "confirm_commit",
                 "git_commit"} : calls'[c] <= 1

\* C14: every run moves through CheckRepo, CollectDiff, BuildPrompt, Invoke,
\* Clean, Format, Confirm and then Commit or Abort in that order: a stage is
\* entered at most once, only from the stage before it and only when that one
\* succeeded, and after the run has ended nothing changes any more.
C14_StageOrder == [][C14_Step]_vars

C14_Witness ==
    /\ pc = "Exit"
    /\ returned.git_commit = "zero"
    /\ gate = <<TRUE>>
    /\ Len(reads) = 2
    /\ \A c \in {"is_git_repo", "run_git_diff", "model_prompt", "confirm_commit",
                 "git_commit"} : calls[c] = 1

\* the precedence explicit flag > environment variable > built-in default
C15_Pick(flag, variable, default) ==
    CASE flag # Unset -> flag
      [] flag = Unset /\ variable # Unset -> variable
      [] OTHER -> default

\* a temperature as the text that denotes it
C15_TemperatureText(t) ==
    CASE t = 30 -> "0.3"
      [] t = 50 -> "0.5"
      [] t = 95 -> "0.95"
      [] OTHER -> "?"

\* C15: model, max-tokens, temperature, truncation-limit, no-truncation and
\* hint are each taken from the flag if given, else from the environment
\* variable if set, else from the default, and that value is what
\* get_staged_diff or generate_commit_message receives.
C15_OptionPrecedence ==
    /\ handed.get_staged_diff # <<>> =>
          LET h == handed.get_staged_diff[1]
          IN  /\ ToString(h.truncation_limit)
                    = C15_Pick(argv.truncation_limit, env.LLM_COMMIT_TRUNCATION_LIMIT, "4000")
              /\ h.no_truncation
                    = (C15_Pick(IF argv.no_truncation THEN "1" ELSE Unset,
                                env.LLM_COMMIT_NO_TRUNCATION, "0") = "1")
    /\ handed.generate_commit_message # <<>> =>
          LET h == handed.generate_commit_message[1]
          IN  /\ h.model = C15_Pick(argv.model, env.LLM_COMMIT_MODEL, Unset)
              /\ ToString(h.max_tokens)
                    = C15_Pick(argv.max_tokens, env.LLM_COMMIT_MAX_TOKENS, "100")
              /\ C15_TemperatureText(h.temperature)
                    = C15_Pick(argv.temperature, env.LLM_COMMIT_TEMPERATURE, "0.3")
              /\ h.hint = C15_Pick(argv.hint, env.LLM_COMMIT_HINT, Unset)
              /\ h.diff = diff
              /\ handed.get_staged_diff # <<>>

C15_Witness ==
    /\ handed.generate_commit_message # <<>>
    /\ argv.max_tokens = "50" /\ env.LLM_COMMIT_MAX_TOKENS = "150"
    /\ handed.generate_commit_message[1].max_tokens = 50
    /\ argv.model = Unset /\ env.LLM_COMMIT_MODEL = "m2"
    /\ handed.generate_commit_message[1].model = "m2"
    /\ argv.temperature = Unset /\ env.LLM_COMMIT_TEMPERATURE = Unset
    /\ handed.generate_commit_message[1].temperature = 30
    /\ argv.truncation_limit = Unset /\ env.LLM_COMMIT_TRUNCATION_LIMIT = "2"
    /\ handed.get_staged_diff[1].truncation_limit = 2
    /\ ~argv.no_truncation /\ env.LLM_COMMIT_NO_TRUNCATION = "1"
    /\ handed.get_staged_diff[1].no_truncation
    /\ argv.hint = "" /\ env.LLM_COMMIT_HINT = "h2"
    /\ handed.generate_commit_message[1].hint = ""

\* C16: the model is invoked at most once per run; when the call raises, the
\* exception leaves the pipeline uncaught: nothing is logged, the confirmation
\* gate is not shown, git commit is not invoked and the exit code is not 0.
C16_ModelFailureUncaught ==
    /\ calls["model_prompt"] <= 1
    /\ returned.model_prompt = "raised" =>
          /\ pc = "Exit"
          /\ uncaught
          /\ exitCode # 0
          /\ exitCode # NoExit
          /\ calls["model_prompt"] = 1
          /\ calls["confirm_commit"] = 0
          /\ calls["input"] = 0
          /\ calls["git_commit"] = 0
          /\ shown = <<>>
          /\ committed = <<>>
          /\ \A i \in 1..Len(log) : log[i].level # "ERROR"

C16_Witness ==
    /\ returned.model_prompt = "raised"
    /\ calls["model_prompt"] = 1
    /\ uncaught
    /\ pc = "Exit"

\* C17: every run reaches a terminal state (committed, aborted or a failure
\* exit) provided each external call returns or fails and, without
\* auto-confirm, the user eventually enters yes, y, no or n.
C17_Terminates == <>(pc = "Exit")

C17_Witness ==
    /\ pc = "Exit"
    /\ ~args.yes
    /\ Len(reads) = MaxReads
    /\ calls["input"] = MaxReads
    /\ gate # <<>>
    /\ ~C7_Valid(reads[1])

====
